---- MODULE Spec2Model ----
(***************************************************************************)
(* Background task scheduler and periodic execution engine of flutter_mcp. *)
(*                                                                         *)
(* Windows: class BackgroundService (background_service.cpp) with a        *)
(* foreground caller, the worker thread (BackgroundWorker) and the         *)
(* scheduler thread (TaskScheduler).                                       *)
(* Linux: the start/stop/schedule/cancel handlers and background_worker of *)
(* flutter_mcp_plugin.cc.                                                  *)
(*                                                                         *)
(* A behaviour runs one platform, chosen in Init.  Thread positions are    *)
(* named after the source line the thread is about to execute.             *)
(***************************************************************************)
EXTENDS Integers, Sequences, FiniteSets, TLC

VARIABLES
  platform,            \* "windows" or "linux"
  now,                 \* std::chrono::steady_clock::now()
  fg_pc,               \* position of the foreground (platform) thread
  \* ---- Windows BackgroundService fields
  is_running_,
  scheduler_running_,
  interval_ms_,
  scheduled_tasks_,    \* std::map<string, ScheduledTask>: id -> [execute_time, task]
  w_pc,                \* worker_thread_ / BackgroundWorker position
  w_wake,              \* end of the sleep_for in progress
  s_pc,                \* scheduler_thread_ / TaskScheduler position
  s_ref,               \* map entry `earliest` refers to during wait_until
  s_target,            \* absolute time of the timed wait in progress
  s_task,              \* the task copied out of the registry at line 118
  \* ---- Linux plugin fields (struct _FlutterMcpPlugin)
  background_running,
  background_thread,   \* TRUE when the unique_ptr holds a thread
  background_interval_ms,
  scheduled_tasks,     \* std::map: id -> [execute_time, task]
  b_pc,                \* background_worker position
  b_wake,              \* deadline of the wait_for in progress
  \* ---- Linux plugin event channel
  event_sink,          \* self->event_sink (a sink number), 0 for nullptr
  b_tested,            \* the value send_event's test of line 758 read
  b_passed,            \* the value the last send_event gave fl_event_sink_add, -1 when none
  b_left,              \* actions of the pass in progress that have not published yet
  \* ---- Windows plugin event channel (FlutterMcpPlugin fields)
  event_sink_,         \* the attached sink (a sink number), 0 for nullptr
  deliver_to,          \* the sink whose Success() is executing, 0 when none
  nextSink,            \* number of the sink the next OnListen brings
  received,            \* how many events each sink has received
  sent,                \* how many events were published while each sink was attached
  \* ---- the outcome of the latest Start call
  start_error,         \* "none", or the exception that left the call
  \* ---- the method call in progress on the plugin's channel
  fg_args,             \* the arguments of the last call whose reply is not yet taken
  reply,               \* its response: "none", "Success" or "INVALID_ARGS"
  \* ---- observation (history) variables
  nextInst,            \* number of the next task instance to be stored
  runs,                \* how often each task instance's action was invoked
  lastDue,             \* execute_time of the action invoked last
  cancelled,           \* instances a cancel call erased from the registry
  pendingAtStop,       \* instances in the registry at a shutdown request
  reschedEarlier,      \* pending instances stored over an entry that was due later
  liveWorkers,         \* threads running BackgroundWorker / background_worker
  liveScheds           \* threads running TaskScheduler

winVars == <<is_running_, scheduler_running_, interval_ms_, scheduled_tasks_,
             w_pc, w_wake, s_pc, s_ref, s_target, s_task>>
linVars_but_pc == <<background_running, background_thread, background_interval_ms,
                   scheduled_tasks, b_wake>>
linVars == <<background_running, background_thread, background_interval_ms,
             scheduled_tasks, b_pc, b_wake>>
obsVars == <<nextInst, runs, lastDue, cancelled, pendingAtStop, reschedEarlier,
             liveWorkers, liveScheds>>
callVars == <<fg_args, reply>>
sinkVars == <<event_sink_, deliver_to, nextSink, received, sent>>
failVars == <<start_error>>
linSinkVars == <<event_sink, b_tested, b_passed, b_left>>
vars == <<platform, now, fg_pc, winVars, linVars, callVars, sinkVars, linSinkVars,
          failVars, obsVars>>

(***************************************************************************)
(* Bounds of the model.                                                    *)
(***************************************************************************)
MaxTime == 2          \* the clock makes MaxTime ticks
MaxDelay == 1         \* delay_millis is at most MaxDelay ticks
MaxInst == 2          \* at most MaxInst schedule calls in a behaviour
MaxInterval == 2      \* SetInterval arguments are at most MaxInterval ticks
MaxSinks == 2         \* at most MaxSinks OnListen calls in a behaviour

Ids == {"a", "b"}
KeySeq == <<"a", "b">>   \* std::map iterates its keys in this order
Insts == 1..(MaxInst + 1)
Sinks == 1..MaxSinks

DefaultInterval == 60000   \* interval_ms_ after construction

\* The clock is observed every TickMs milliseconds; delays and intervals are
\* multiples of it.
TickMs == DefaultInterval
Delays == {d * TickMs : d \in 0..MaxDelay}
Intervals == {n * TickMs : n \in 1..MaxInterval}

Rank(id) == CHOOSE n \in 1..Len(KeySeq) : KeySeq[n] = id

EmptyMap == [k \in {} |-> 0]
NoArgs == [method |-> "none", hasMap |-> FALSE, hasTaskId |-> FALSE,
           taskId |-> "none", hasDelay |-> FALSE, delayMillis |-> 0]
NoTask == [id |-> "none", task |-> 0, execute_time |-> 0]

MapPut_Only(m, id, e) == [k \in {id} |-> e]

\* m[id] = e   (std::map::operator[] followed by assignment)
MapPut(m, id, e) == [k \in (DOMAIN m) \cup {id} |-> IF k = id THEN e ELSE m[k]]
\* m.erase(id)
MapErase(m, id) == [k \in (DOMAIN m) \ {id} |-> m[k]]

TasksOf(m) == {m[k].task : k \in DOMAIN m}

Notify_Lost(pc) == pc

(***************************************************************************)
(* Condition variable tasks_cv_: a notification moves a blocked waiter to  *)
(* the point where it re-acquires tasks_mutex_; it is lost when no thread  *)
(* is blocked.                                                             *)
(***************************************************************************)
Notify(pc) ==
  CASE pc = "L99_blocked"  -> "L99_woken"
    [] pc = "L127_blocked" -> "L127_woken"
    [] OTHER               -> pc

SchedLockedAt_NoUnlock == {"L99_block", "L127_block", "L123", "L123_L608"}

\* The positions at which the scheduler thread holds tasks_mutex_ between
\* two steps: locked at line 96, it is released by `continue` (line 102), by
\* lock.unlock() (line 121) before the action, by the end of the loop body
\* (line 131), and inside the waits of lines 99 and 127 once the thread
\* blocks; so only a thread about to block in a wait still holds it.
SchedLockedAt == {"L99_block", "L127_block"}

\* std::mutex tasks_mutex_: the foreground holds it only inside one step; the
\* scheduler holds it between steps while it is about to block in a wait.
TasksMutexHolder == IF s_pc \in SchedLockedAt THEN "sched" ELSE "free"
TasksMutexFree == TasksMutexHolder = "free"

(***************************************************************************)
(* The event channel of the Windows plugin: event_sink_ guarded by         *)
(* event_sink_mutex_.  The foreground holds the mutex only inside one      *)
(* step; a background thread holds it while Success() executes.            *)
(***************************************************************************)
SinkMutexHolder ==
  IF w_pc = "L608" THEN "worker"
  ELSE IF s_pc = "L123_L608" THEN "sched" ELSE "free"

SinkMutexFree_NoLock == TRUE

\* plugin lines 592, 597, 603: std::lock_guard<std::mutex> lock(event_sink_mutex_)
SinkMutexFree == SinkMutexHolder = "free"

SinkAttached_Always(sink) == TRUE

\* plugin line 604: if (event_sink_)
SinkAttached(sink) == sink # 0

\* plugin line 608: the sink takes one event
Deliver(rcv, sink) == [k \in DOMAIN rcv |-> IF k = sink THEN rcv[k] + 1 ELSE rcv[k]]

Init ==
  /\ platform \in {"windows", "linux"}
  /\ now = 0
  /\ fg_pc = "idle"
  /\ is_running_ = FALSE
  /\ scheduler_running_ = FALSE
  /\ interval_ms_ = DefaultInterval
  /\ scheduled_tasks_ = EmptyMap
  /\ w_pc = "none"
  /\ w_wake = 0
  /\ s_pc = "none"
  /\ s_ref = "none"
  /\ s_target = 0
  /\ s_task = NoTask
  /\ background_running = FALSE
  /\ background_thread = FALSE
  /\ background_interval_ms = DefaultInterval
  /\ scheduled_tasks = EmptyMap
  /\ b_pc = "none"
  /\ b_wake = 0
  /\ start_error = "none"
  /\ event_sink = 0
  /\ b_tested = 0
  /\ b_passed = -1
  /\ b_left = 0
  /\ event_sink_ = 0
  /\ deliver_to = 0
  /\ nextSink = 1
  /\ received = [k \in Sinks |-> 0]
  /\ sent = [k \in Sinks |-> 0]
  /\ fg_args = NoArgs
  /\ reply = "none"
  /\ nextInst = 1
  /\ runs = [i \in Insts |-> 0]
  /\ lastDue = 0
  /\ cancelled = {}
  /\ pendingAtStop = {}
  /\ reschedEarlier = {}
  /\ liveWorkers = 0
  /\ liveScheds = 0

\* The steady clock advances.
Tick ==
  /\ now < MaxTime * TickMs
  /\ now' = now + TickMs
  /\ UNCHANGED <<platform, linSinkVars, failVars, sinkVars, callVars, linVars, fg_pc, winVars, obsVars>>

(***************************************************************************)
(* Windows: the foreground thread calling BackgroundService.               *)
(***************************************************************************)
Win == platform = "windows"

\* The foreground calls Start() / Stop().
CallStart ==
  /\ Win /\ fg_pc = "idle"
  /\ fg_pc' = "Start_L17"
  /\ UNCHANGED <<platform, linSinkVars, failVars, sinkVars, callVars, linVars, now, winVars, obsVars>>

CallStop ==
  /\ Win /\ fg_pc = "idle"
  /\ fg_pc' = "Stop_L31"
  /\ UNCHANGED <<platform, linSinkVars, failVars, sinkVars, callVars, linVars, now, winVars, obsVars>>

StartProceeds_Always == TRUE

StartProceeds_Never == FALSE

\* line 17: if (is_running_) return;
StartProceeds == ~is_running_

\* lines 17-27: the guard, event_callback_, is_running_, scheduler_running_,
\* worker_thread_ = std::thread(BackgroundWorker) and
\* scheduler_thread_ = std::thread(TaskScheduler)
Start_L17 ==
  /\ Win /\ fg_pc = "Start_L17"
  /\ IF StartProceeds
       THEN /\ is_running_' = TRUE
            /\ scheduler_running_' = TRUE
            /\ w_pc' = "L77"
            /\ liveWorkers' = liveWorkers + 1
            /\ s_pc' = "L94"
            /\ liveScheds' = liveScheds + 1
       ELSE UNCHANGED <<is_running_, scheduler_running_, w_pc, s_pc,
                        liveWorkers, liveScheds>>
  /\ fg_pc' = "idle"
  /\ start_error' = "none"
  /\ UNCHANGED <<platform, linSinkVars, sinkVars, callVars, linVars, now, interval_ms_, scheduled_tasks_, w_wake, s_ref,
                 s_target, s_task, nextInst, runs, lastDue, cancelled,
                 pendingAtStop, reschedEarlier>>

\* lines 20-27 when a std::thread constructor throws std::system_error (the
\* system cannot start another thread): the flags are already set at lines
\* 20-21; the worker's constructor fails at line 24, or the worker is
\* running and the scheduler's fails at line 27.  Start() has no handler,
\* so the exception leaves the call.
Start_ThreadThrows ==
  /\ Win /\ fg_pc = "Start_L17"
  /\ StartProceeds
  /\ is_running_' = TRUE
  /\ scheduler_running_' = TRUE
  /\ \/ UNCHANGED <<w_pc, liveWorkers>>
     \/ w_pc' = "L77" /\ liveWorkers' = liveWorkers + 1
  /\ start_error' = "system_error"
  /\ fg_pc' = "idle"
  /\ UNCHANGED <<platform, linSinkVars, sinkVars, callVars, linVars, now, interval_ms_, scheduled_tasks_, w_wake,
                 s_pc, s_ref, s_target, s_task, nextInst, runs, lastDue, cancelled,
                 pendingAtStop, reschedEarlier, liveScheds>>

StopProceeds_Always == TRUE

\* line 31: if (!is_running_) return;
StopProceeds == is_running_

\* lines 31-34: the guard, is_running_ = false, scheduler_running_ = false
\* (the shutdown request)
Stop_L31 ==
  /\ Win /\ fg_pc = "Stop_L31"
  /\ IF StopProceeds
       THEN /\ is_running_' = FALSE
            /\ scheduler_running_' = FALSE
            /\ pendingAtStop' = pendingAtStop \cup TasksOf(scheduled_tasks_)
            /\ fg_pc' = "Stop_L37"
       ELSE /\ fg_pc' = "idle"
            /\ UNCHANGED <<is_running_, scheduler_running_, pendingAtStop>>
  /\ UNCHANGED <<platform, linSinkVars, failVars, sinkVars, callVars, linVars, now, interval_ms_, scheduled_tasks_, w_pc, w_wake,
                 s_pc, s_ref, s_target, s_task, nextInst, runs, lastDue,
                 cancelled, reschedEarlier, liveWorkers, liveScheds>>

\* line 37: tasks_cv_.notify_all(), tasks_mutex_ not held
Stop_L37 ==
  /\ Win /\ fg_pc = "Stop_L37"
  /\ s_pc' = Notify(s_pc)
  /\ fg_pc' = "Stop_L40"
  /\ UNCHANGED <<platform, linSinkVars, failVars, sinkVars, callVars, linVars, now, is_running_, scheduler_running_, interval_ms_,
                 scheduled_tasks_, w_pc, w_wake, s_ref, s_target, s_task,
                 obsVars>>

JoinReturns_NoWait(pc) == TRUE

\* if (t.joinable()) t.join(): passes at once when the handle holds no
\* thread, and otherwise once the thread function has returned
JoinReturns(pc) == pc \in {"none", "done"}

\* lines 40-52: join worker_thread_, join scheduler_thread_, then
\* scheduled_tasks_.clear() under tasks_mutex_
Stop_L40 ==
  /\ Win /\ fg_pc = "Stop_L40"
  /\ JoinReturns(w_pc) /\ w_pc' = "none"
  /\ JoinReturns(s_pc) /\ s_pc' = "none"
  /\ TasksMutexFree
  /\ scheduled_tasks_' = EmptyMap
  /\ pendingAtStop' = pendingAtStop \ TasksOf(scheduled_tasks_)
  /\ reschedEarlier' = {}
  /\ fg_pc' = "idle"
  /\ UNCHANGED <<platform, linSinkVars, failVars, sinkVars, callVars, linVars, now, is_running_, scheduler_running_, interval_ms_,
                 w_wake, s_ref, s_target, s_task, nextInst, runs, lastDue,
                 cancelled, liveWorkers, liveScheds>>

\* lines 55-57
SetInterval(interval_ms) ==
  /\ Win /\ fg_pc = "idle"
  /\ interval_ms_' = interval_ms
  /\ UNCHANGED <<platform, linSinkVars, failVars, sinkVars, callVars, linVars, now, fg_pc, is_running_, scheduler_running_,
                 scheduled_tasks_, w_pc, w_wake, s_pc, s_ref, s_target, s_task,
                 obsVars>>

\* plugin lines 589-594: event_sink_ = std::move(events)
OnListen ==
  /\ Win /\ fg_pc = "idle"
  /\ SinkMutexFree
  /\ nextSink <= MaxSinks
  /\ event_sink_' = nextSink
  /\ nextSink' = nextSink + 1
  /\ UNCHANGED <<platform, linSinkVars, failVars, now, fg_pc, winVars, linVars, callVars, deliver_to,
                 received, sent, obsVars>>

\* plugin lines 596-599: event_sink_ = nullptr
OnCancel ==
  /\ Win /\ fg_pc = "idle"
  /\ SinkMutexFree
  /\ event_sink_' = 0
  /\ UNCHANGED <<platform, linSinkVars, failVars, now, fg_pc, winVars, linVars, callVars, deliver_to,
                 nextSink, received, sent, obsVars>>

\* lines 59-69, all under tasks_mutex_
ScheduleTask(task_id, delay_millis) ==
  /\ Win /\ fg_pc = "idle"
  /\ TasksMutexFree
  /\ LET scheduled_task == [id |-> task_id,
                            execute_time |-> now + delay_millis,
                            task |-> nextInst]
         old == IF task_id \in DOMAIN scheduled_tasks_
                  THEN {scheduled_tasks_[task_id]} ELSE {}
     IN /\ scheduled_tasks_' = MapPut(scheduled_tasks_, task_id, scheduled_task)
        /\ reschedEarlier' =
             (reschedEarlier \ {o.task : o \in old}) \cup
             {nextInst : o \in {p \in old :
                                  p.execute_time > scheduled_task.execute_time}}
        /\ pendingAtStop' = pendingAtStop \ {o.task : o \in old}
  /\ nextInst' = nextInst + 1
  /\ s_pc' = Notify(s_pc)
  /\ UNCHANGED <<platform, linSinkVars, failVars, sinkVars, linVars, now, fg_pc, is_running_, scheduler_running_,
                 interval_ms_, w_pc, w_wake, s_ref, s_target, s_task, runs,
                 lastDue, cancelled, liveWorkers, liveScheds>>

CancelErase_Keep(m, task_id) == m

CancelErase_Clear(m, task_id) ==
  IF task_id \in DOMAIN m THEN MapErase(m, task_id) ELSE EmptyMap

\* line 73: scheduled_tasks_.erase(task_id)
CancelErase(m, task_id) == MapErase(m, task_id)

\* lines 71-74, under tasks_mutex_
CancelTask(task_id) ==
  /\ Win /\ fg_pc = "idle"
  /\ TasksMutexFree
  /\ scheduled_tasks_' = CancelErase(scheduled_tasks_, task_id)
  /\ cancelled' = cancelled \cup
                  {scheduled_tasks_[k].task : k \in DOMAIN scheduled_tasks_ \cap {task_id}}
  /\ reschedEarlier' = reschedEarlier \cap TasksOf(scheduled_tasks_')
  \* erasing the node invalidates the scheduler's `earliest` iterator to it
  /\ s_ref' = IF s_ref = task_id /\ task_id \notin DOMAIN scheduled_tasks_'
                THEN "dangling" ELSE s_ref
  /\ UNCHANGED <<platform, linSinkVars, failVars, sinkVars, linVars, now, fg_pc, is_running_, scheduler_running_,
                 interval_ms_, w_pc, w_wake, s_pc, s_target, s_task, nextInst,
                 runs, lastDue, pendingAtStop, liveWorkers, liveScheds>>

(***************************************************************************)
(* Windows: BackgroundWorker, the periodic-tick thread (lines 76-91).      *)
(***************************************************************************)
\* line 77: while (is_running_), reached at thread start and each time the
\* sleep_for of line 89 has elapsed
WorkerLoop ==
  /\ Win /\ w_pc = "L77"
  /\ now >= w_wake
  /\ IF is_running_
       THEN w_pc' = "L79" /\ UNCHANGED liveWorkers
       ELSE w_pc' = "done" /\ liveWorkers' = liveWorkers - 1
  /\ w_wake' = 0
  /\ UNCHANGED <<platform, linSinkVars, failVars, sinkVars, callVars, linVars, now, fg_pc, is_running_, scheduler_running_,
                 interval_ms_, scheduled_tasks_, s_pc, s_ref, s_target, s_task,
                 nextInst, runs, lastDue, cancelled, pendingAtStop,
                 reschedEarlier, liveScheds>>

IntervalLoad_Default == DefaultInterval

\* line 89: interval_ms_.load(), read when the sleep starts
IntervalLoad == interval_ms_

\* lines 79-89: event_callback_("backgroundEvent", {type: periodic}), then
\* std::this_thread::sleep_for(milliseconds(interval_ms_.load()))
\* SendEvent (plugin lines 603-604) is entered with event_sink_mutex_; with
\* no sink the event is dropped and the sleep starts, with a sink its
\* Success() is called (line 608).
WorkerTick ==
  /\ Win /\ w_pc = "L79"
  /\ SinkMutexFree
  /\ IF SinkAttached(event_sink_)
       THEN /\ deliver_to' = event_sink_
            /\ w_pc' = "L608"
            /\ UNCHANGED w_wake
       ELSE /\ w_wake' = now + IntervalLoad
            /\ w_pc' = "L77"
            /\ UNCHANGED deliver_to
  /\ UNCHANGED <<platform, linSinkVars, failVars, callVars, linVars, now, fg_pc, is_running_, scheduler_running_,
                 interval_ms_, scheduled_tasks_, s_pc, s_ref, s_target, s_task,
                 event_sink_, nextSink, received, obsVars>>
  /\ sent' = Deliver(sent, event_sink_)

\* plugin lines 608-610 and line 89: Success() returns, SendEvent releases
\* event_sink_mutex_, and the sleep starts
WorkerDelivered ==
  /\ Win /\ w_pc = "L608"
  /\ received' = Deliver(received, deliver_to)
  /\ deliver_to' = 0
  /\ w_wake' = now + IntervalLoad
  /\ w_pc' = "L77"
  /\ UNCHANGED <<platform, linSinkVars, failVars, callVars, linVars, now, fg_pc, is_running_, scheduler_running_,
                 interval_ms_, scheduled_tasks_, s_pc, s_ref, s_target, s_task,
                 event_sink_, nextSink, sent, obsVars>>

(***************************************************************************)
(* Windows: TaskScheduler, the task-draining thread (lines 93-133).        *)
(***************************************************************************)
MinElement_FirstKey(m) ==
  CHOOSE k \in DOMAIN m : \A j \in DOMAIN m : Rank(k) <= Rank(j)

\* lines 106-111: std::min_element over the map in key order, comparing
\* execute_time with <: the first entry among those with the least time.
MinElement(m) ==
  CHOOSE k \in DOMAIN m :
    \A j \in (DOMAIN m) \ {k} :
      \/ m[k].execute_time < m[j].execute_time
      \/ m[k].execute_time = m[j].execute_time /\ Rank(k) < Rank(j)

IsDue_Always(e, t) == TRUE

\* line 116: earliest->second.execute_time <= now
IsDue(e, t) == e.execute_time <= t

PopErase_Keep(m, id) == m

\* line 119: scheduled_tasks_.erase(earliest)
PopErase(m, id) == MapErase(m, id)

\* lines 99-101: the predicate of tasks_cv_.wait
WaitPred(m, running) == m # EmptyMap \/ ~running

\* lines 127-129: the predicate of tasks_cv_.wait_until
UntilPred(m, running) == ~running

\* The values a read of earliest->second.execute_time can produce: the
\* entry's time, or, when the node was erased meanwhile (a dangling
\* reference, undefined behaviour), any time.
ReadRef(m, ref) ==
  IF ref \in DOMAIN m THEN {m[ref].execute_time}
                    ELSE {t * TickMs : t \in 0..(MaxTime + MaxDelay)}

\* line 94: while (scheduler_running_)
SchedLoop ==
  /\ Win /\ s_pc = "L94"
  /\ IF scheduler_running_
       THEN s_pc' = "L95" /\ UNCHANGED liveScheds
       ELSE s_pc' = "done" /\ liveScheds' = liveScheds - 1
  /\ UNCHANGED <<platform, linSinkVars, failVars, sinkVars, callVars, linVars, now, fg_pc, is_running_, scheduler_running_,
                 interval_ms_, scheduled_tasks_, w_pc, w_wake, s_ref, s_target,
                 s_task, nextInst, runs, lastDue, cancelled, pendingAtStop,
                 reschedEarlier, liveWorkers>>

\* One round of wait_until(lock, earliest->second.execute_time, pred), which is
\*   while (!pred()) if (wait_until(lock, abs_time) == timeout) return pred();
\* entered holding the lock with `earliest` referring to entry ref: the
\* predicate, then abs_time read through the reference.  Either the call
\* returns (the end of the loop body releases the lock) or the thread is
\* about to block until abs_time.
UntilRound(ref) ==
  IF UntilPred(scheduled_tasks_, scheduler_running_)
    THEN s_pc' = "L94" /\ s_ref' = "none" /\ s_target' = 0
    ELSE \E abs_time \in ReadRef(scheduled_tasks_, ref) :
           IF abs_time <= now
             THEN s_pc' = "L94" /\ s_ref' = "none" /\ s_target' = 0
             ELSE s_pc' = "L127_block" /\ s_ref' = ref /\ s_target' = abs_time

\* One round of tasks_cv_.wait(lock, pred) holding the lock: the call returns
\* (`continue` releases the lock) or the thread is about to block.
WaitRound ==
  IF WaitPred(scheduled_tasks_, scheduler_running_)
    THEN s_pc' = "L94"
    ELSE s_pc' = "L99_block"

\* lines 95-130: lock; empty -> the wait of line 99; otherwise find the
\* earliest entry and either take it out (erase, unlock) and invoke its
\* action, or enter the timed wait of line 127 with `earliest` referring to
\* it.
SchedLock ==
  /\ Win /\ s_pc = "L95"
  /\ TasksMutexFree
  /\ IF scheduled_tasks_ = EmptyMap
       THEN /\ WaitRound
            /\ UNCHANGED <<scheduled_tasks_, s_ref, s_target, s_task, runs,
                           lastDue, reschedEarlier>>
       ELSE LET earliest == MinElement(scheduled_tasks_)
                task == scheduled_tasks_[earliest]
            IN
            IF IsDue(task, now)
              THEN /\ s_task' = task
                   /\ scheduled_tasks_' = PopErase(scheduled_tasks_, earliest)
                   /\ runs' = [runs EXCEPT ![task.task] = @ + 1]
                   /\ lastDue' = task.execute_time
                   /\ reschedEarlier' = reschedEarlier \ {task.task}
                   /\ s_pc' = "L123"
                   /\ UNCHANGED <<s_ref, s_target>>
              ELSE /\ UntilRound(earliest)
                   /\ UNCHANGED <<scheduled_tasks_, s_task, runs, lastDue,
                                  reschedEarlier>>
  /\ UNCHANGED <<platform, linSinkVars, failVars, sinkVars, callVars, linVars, now, fg_pc, is_running_, scheduler_running_,
                 interval_ms_, w_pc, w_wake, nextInst, cancelled,
                 pendingAtStop, liveWorkers, liveScheds>>

\* tasks_cv_.wait / wait_until releases the lock and blocks, atomically
SchedBlock ==
  /\ Win /\ s_pc \in {"L99_block", "L127_block"}
  /\ s_pc' = IF s_pc = "L99_block" THEN "L99_blocked" ELSE "L127_blocked"
  /\ UNCHANGED <<platform, linSinkVars, failVars, sinkVars, callVars, linVars, now, fg_pc, is_running_, scheduler_running_,
                 interval_ms_, scheduled_tasks_, w_pc, w_wake, s_ref, s_target,
                 s_task, obsVars>>

\* a condition variable may wake without a notification
SchedSpuriousWake ==
  /\ Win /\ s_pc \in {"L99_blocked", "L127_blocked"}
  /\ s_pc' = Notify(s_pc)
  /\ UNCHANGED <<platform, linSinkVars, failVars, sinkVars, callVars, linVars, now, fg_pc, is_running_, scheduler_running_,
                 interval_ms_, scheduled_tasks_, w_pc, w_wake, s_ref, s_target,
                 s_task, obsVars>>

\* line 99: a woken waiter re-acquires the lock and evaluates the predicate
SchedWaitWoken ==
  /\ Win /\ s_pc = "L99_woken"
  /\ TasksMutexFree
  /\ WaitRound
  /\ UNCHANGED <<platform, linSinkVars, failVars, sinkVars, callVars, linVars, now, fg_pc, is_running_, scheduler_running_,
                 interval_ms_, scheduled_tasks_, w_pc, w_wake, s_ref, s_target,
                 s_task, obsVars>>

\* line 127: a woken waiter re-acquires the lock and goes round again
SchedUntilWoken ==
  /\ Win /\ s_pc = "L127_woken"
  /\ TasksMutexFree
  /\ UntilRound(s_ref)
  /\ UNCHANGED <<platform, linSinkVars, failVars, sinkVars, callVars, linVars, now, fg_pc, is_running_, scheduler_running_,
                 interval_ms_, scheduled_tasks_, w_pc, w_wake, s_task, obsVars>>

\* line 127: the timed wait reaches abs_time; re-acquire the lock, return
\* pred() (ignored), the end of the loop body releases the lock
SchedUntilTimeout ==
  /\ Win /\ s_pc = "L127_blocked"
  /\ now >= s_target
  /\ TasksMutexFree
  /\ s_pc' = "L94"
  /\ s_ref' = "none"
  /\ s_target' = 0
  /\ UNCHANGED <<platform, linSinkVars, failVars, sinkVars, callVars, linVars, now, fg_pc, is_running_, scheduler_running_,
                 interval_ms_, scheduled_tasks_, w_pc, w_wake, s_task, obsVars>>

\* line 123 when task() throws: nothing in TaskScheduler catches, the
\* exception leaves the thread function and std::terminate ends the process
SchedActionThrows ==
  /\ Win /\ s_pc = "L123"
  /\ s_pc' = "terminate"
  /\ w_pc' = "terminate"
  /\ fg_pc' = "terminate"
  /\ liveWorkers' = 0
  /\ liveScheds' = 0
  /\ UNCHANGED <<platform, linSinkVars, sinkVars, failVars, callVars, linVars, now, is_running_,
                 scheduler_running_, interval_ms_, scheduled_tasks_, w_wake, s_ref,
                 s_target, s_task, nextInst, runs, lastDue, cancelled,
                 pendingAtStop, reschedEarlier>>

\* line 123: the action (plugin lines 218-224) calls SendEvent, entered with
\* event_sink_mutex_; with no sink the event is dropped and the action
\* returns to the next round of the loop, with a sink its Success() is
\* called (plugin line 608)
SchedActionReturn ==
  /\ Win /\ s_pc = "L123"
  /\ SinkMutexFree
  /\ IF SinkAttached(event_sink_)
       THEN /\ deliver_to' = event_sink_
            /\ s_pc' = "L123_L608"
            /\ UNCHANGED s_task
       ELSE /\ s_pc' = "L94"
            /\ s_task' = NoTask
            /\ UNCHANGED deliver_to
  /\ UNCHANGED <<platform, linSinkVars, failVars, callVars, linVars, now, fg_pc, is_running_, scheduler_running_,
                 interval_ms_, scheduled_tasks_, w_pc, w_wake, s_ref, s_target,
                 event_sink_, nextSink, received, obsVars>>
  /\ sent' = Deliver(sent, event_sink_)

\* plugin lines 608-610: Success() returns, SendEvent releases
\* event_sink_mutex_, the action returns
SchedDelivered ==
  /\ Win /\ s_pc = "L123_L608"
  /\ received' = Deliver(received, deliver_to)
  /\ deliver_to' = 0
  /\ s_pc' = "L94"
  /\ s_task' = NoTask
  /\ UNCHANGED <<platform, linSinkVars, failVars, callVars, linVars, now, fg_pc, is_running_, scheduler_running_,
                 interval_ms_, scheduled_tasks_, w_pc, w_wake, s_ref, s_target,
                 event_sink_, nextSink, sent, obsVars>>

\* the environment makes at most `calls` schedule calls
WinNext(calls) ==
  \/ CallStart \/ Start_L17
  \/ CallStop \/ Stop_L31 \/ Stop_L37 \/ Stop_L40
  \/ \E id \in Ids, d \in Delays : nextInst <= calls /\ ScheduleTask(id, d) /\ UNCHANGED callVars
  \/ \E id \in Ids : CancelTask(id) /\ UNCHANGED callVars
  \/ WorkerLoop \/ WorkerTick
  \/ SchedLoop \/ SchedLock \/ SchedBlock \/ SchedSpuriousWake
  \/ SchedWaitWoken \/ SchedUntilWoken \/ SchedUntilTimeout
  \/ SchedActionReturn

(***************************************************************************)
(* Linux: the method handlers, run on the foreground (GTK main) thread.    *)
(***************************************************************************)
Lin == platform = "linux"

\* condition variable background_cv
NotifyBg(pc) == IF pc = "L78_blocked" THEN "L78_woken" ELSE pc

\* The positions at which background_worker holds tasks_mutex between two
\* steps: the lock_guard of line 94 lives to the end of the block at line
\* 109, across the action invocations of line 102.
bg_LockedAt == {"L102", "L102_L763"}

\* std::mutex tasks_mutex: the foreground holds it only inside one step
tasks_mutex_holder == IF b_pc \in bg_LockedAt THEN "worker" ELSE "free"
tasks_mutex_free == tasks_mutex_holder = "free"

\* line 178: if (!self->background_running)
start_proceeds == ~background_running

\* lines 177-185
start_background_service ==
  /\ Lin /\ fg_pc = "idle"
  /\ IF start_proceeds
       THEN /\ background_running' = TRUE
            /\ background_thread' = TRUE
            /\ b_pc' = "L75"
            /\ liveWorkers' = liveWorkers + 1
       ELSE UNCHANGED <<background_running, background_thread, b_pc,
                        liveWorkers>>
  /\ start_error' = "none"
  /\ UNCHANGED <<platform, linSinkVars, sinkVars, callVars, now, fg_pc, winVars, background_interval_ms,
                 scheduled_tasks, b_wake, nextInst, runs, lastDue, cancelled,
                 pendingAtStop, reschedEarlier, liveScheds>>

\* lines 179-180 when std::make_unique<std::thread> throws: background_running
\* is already true, background_thread stays null, the exception leaves the
\* handler
start_thread_throws ==
  /\ Lin /\ fg_pc = "idle"
  /\ start_proceeds
  /\ background_running' = TRUE
  /\ start_error' = "system_error"
  /\ UNCHANGED <<platform, linSinkVars, sinkVars, callVars, now, fg_pc, winVars, background_thread,
                 background_interval_ms, scheduled_tasks, b_pc, b_wake, obsVars>>

\* the foreground calls stop_background_service
call_stop_background_service ==
  /\ Lin /\ fg_pc = "idle"
  /\ fg_pc' = "stop_L188"
  /\ UNCHANGED <<platform, linSinkVars, failVars, sinkVars, callVars, now, winVars, linVars, obsVars>>

\* line 188: if (self->background_thread)
stop_proceeds == background_thread

\* lines 188-190: the guard, background_running = false,
\* background_cv.notify_all() (background_mutex not held)
stop_L188 ==
  /\ Lin /\ fg_pc = "stop_L188"
  /\ IF stop_proceeds
       THEN /\ background_running' = FALSE
            /\ b_pc' = NotifyBg(b_pc)
            /\ pendingAtStop' = pendingAtStop \cup TasksOf(scheduled_tasks)
            /\ fg_pc' = "stop_L191"
       ELSE /\ fg_pc' = "idle"
            /\ UNCHANGED <<background_running, b_pc, pendingAtStop>>
  /\ UNCHANGED <<platform, linSinkVars, failVars, sinkVars, callVars, now, winVars, background_thread,
                 background_interval_ms, scheduled_tasks, b_wake, nextInst, runs,
                 lastDue, cancelled, reschedEarlier, liveWorkers, liveScheds>>

\* lines 191-192: background_thread->join(); background_thread.reset()
stop_L191 ==
  /\ Lin /\ fg_pc = "stop_L191"
  /\ b_pc = "done"
  /\ b_pc' = "none"
  /\ background_thread' = FALSE
  /\ fg_pc' = "idle"
  /\ UNCHANGED <<platform, linSinkVars, failVars, sinkVars, callVars, now, winVars, background_running,
                 background_interval_ms, scheduled_tasks, b_wake, obsVars>>

\* lines 199-208: intervalMs, when given as an int
configure_background_service(intervalMs) ==
  /\ Lin /\ fg_pc = "idle"
  /\ background_interval_ms' = intervalMs
  /\ UNCHANGED <<platform, linSinkVars, failVars, sinkVars, callVars, now, fg_pc, winVars, background_running,
                 background_thread, scheduled_tasks, b_pc, b_wake, obsVars>>

\* lines 225-235, under tasks_mutex
schedule_background_task(task_id, delay_millis) ==
  /\ Lin /\ fg_pc = "idle"
  /\ tasks_mutex_free
  /\ scheduled_tasks' = MapPut(scheduled_tasks, task_id,
                               [id |-> task_id,
                                execute_time |-> now + delay_millis,
                                task |-> nextInst])
  /\ nextInst' = nextInst + 1
  /\ UNCHANGED <<platform, linSinkVars, failVars, sinkVars, now, fg_pc, winVars, background_running,
                 background_thread, background_interval_ms, b_pc, b_wake,
                 runs, lastDue, cancelled, pendingAtStop, reschedEarlier,
                 liveWorkers, liveScheds>>

\* lines 252-253, under tasks_mutex
cancel_background_task(task_id) ==
  /\ Lin /\ fg_pc = "idle"
  /\ tasks_mutex_free
  /\ scheduled_tasks' = MapErase(scheduled_tasks, task_id)
  /\ cancelled' = cancelled \cup
                  {scheduled_tasks[k].task : k \in DOMAIN scheduled_tasks \cap {task_id}}
  /\ UNCHANGED <<platform, linSinkVars, failVars, sinkVars, now, fg_pc, winVars, background_running,
                 background_thread, background_interval_ms, b_pc, b_wake,
                 nextInst, runs, lastDue, pendingAtStop, reschedEarlier,
                 liveWorkers, liveScheds>>

(***************************************************************************)
(* Linux: background_worker (lines 74-111).                                *)
(***************************************************************************)
\* line 75: while (self->background_running)
bg_L75 ==
  /\ Lin /\ b_pc = "L75"
  /\ IF background_running
       THEN b_pc' = "L78" /\ UNCHANGED liveWorkers
       ELSE b_pc' = "done" /\ liveWorkers' = liveWorkers - 1
  /\ UNCHANGED <<platform, linSinkVars, failVars, sinkVars, callVars, now, fg_pc, winVars, background_running,
                 background_thread, background_interval_ms, scheduled_tasks,
                 b_wake, nextInst, runs, lastDue, cancelled, pendingAtStop,
                 reschedEarlier, liveScheds>>

\* lines 77-80: wait_for(lock, interval, pred) is wait_until(lock,
\* now() + interval, pred): the deadline, then the predicate
bg_L78 ==
  /\ Lin /\ b_pc = "L78"
  /\ IF ~background_running
       THEN b_pc' = "L83" /\ b_wake' = 0
       ELSE b_pc' = "L78_block" /\ b_wake' = now + background_interval_ms
  /\ UNCHANGED <<platform, linSinkVars, failVars, sinkVars, callVars, now, fg_pc, winVars, background_running,
                 background_thread, background_interval_ms, scheduled_tasks,
                 obsVars>>

\* the wait releases background_mutex and blocks, atomically
bg_Block ==
  /\ Lin /\ b_pc = "L78_block"
  /\ b_pc' = "L78_blocked"
  /\ UNCHANGED <<platform, linSinkVars, failVars, sinkVars, callVars, now, fg_pc, winVars, background_running,
                 background_thread, background_interval_ms, scheduled_tasks,
                 b_wake, obsVars>>

\* a condition variable may wake without a notification
bg_SpuriousWake ==
  /\ Lin /\ b_pc = "L78_blocked"
  /\ b_pc' = "L78_woken"
  /\ UNCHANGED <<platform, linSinkVars, failVars, sinkVars, callVars, now, fg_pc, winVars, background_running,
                 background_thread, background_interval_ms, scheduled_tasks,
                 b_wake, obsVars>>

\* a woken waiter evaluates the predicate again; a deadline that has passed
\* ends the wait
bg_Woken ==
  /\ Lin /\ b_pc = "L78_woken"
  /\ IF ~background_running \/ now >= b_wake
       THEN b_pc' = "L83" /\ b_wake' = 0
       ELSE b_pc' = "L78_block" /\ UNCHANGED b_wake
  /\ UNCHANGED <<platform, linSinkVars, failVars, sinkVars, callVars, now, fg_pc, winVars, background_running,
                 background_thread, background_interval_ms, scheduled_tasks,
                 obsVars>>

\* the wait reaches its deadline
bg_Timeout ==
  /\ Lin /\ b_pc = "L78_blocked"
  /\ now >= b_wake
  /\ b_pc' = "L83"
  /\ b_wake' = 0
  /\ UNCHANGED <<platform, linSinkVars, failVars, sinkVars, callVars, now, fg_pc, winVars, background_running,
                 background_thread, background_interval_ms, scheduled_tasks,
                 obsVars>>

\* The values the read of self->event_sink at line 763 can produce.  The
\* field is written by the foreground thread with no synchronisation (a
\* data race): the build may read the field again, or reuse the value it
\* loaded for the test of line 758.
SinkRead(tested, current) == {tested, current}

\* lines 83-91: if (self->background_running) send_event for the periodic
\* event; line 758: if (self->event_sink), with a sink the event is built
\* (lines 759-761) before it is added
bg_L83 ==
  /\ Lin /\ b_pc = "L83"
  /\ IF background_running /\ event_sink # 0
       THEN /\ b_pc' = "L83_L763"
            /\ b_tested' = event_sink
            /\ b_passed' = -1
       ELSE /\ b_pc' = "L95"
            /\ UNCHANGED <<b_tested, b_passed>>
  /\ UNCHANGED <<platform, failVars, sinkVars, callVars, now, fg_pc, winVars, background_running,
                 background_thread, background_interval_ms, scheduled_tasks,
                 b_wake, event_sink, b_left, obsVars>>

\* line 763: fl_event_sink_add(self->event_sink, event)
bg_L763 ==
  /\ Lin /\ b_pc \in {"L83_L763", "L102_L763"}
  /\ \E sink \in SinkRead(b_tested, event_sink) : b_passed' = sink
  /\ b_pc' = IF b_pc = "L83_L763" THEN "L95" ELSE "L102"
  /\ b_left' = IF b_pc = "L83_L763" THEN b_left ELSE b_left - 1
  /\ UNCHANGED <<platform, failVars, sinkVars, callVars, now, fg_pc, winVars, linVars_but_pc,
                 event_sink, b_tested, obsVars>>

\* line 99: it->second.first <= now, over the whole map
DueKeys(m, t) == {k \in DOMAIN m : m[k].execute_time <= t}

\* the last key of a non-empty set in the map's iteration order
LastKey(ks) == CHOOSE k \in ks : \A j \in ks : Rank(j) <= Rank(k)

\* The due entries of the map in the order the loop of line 97 visits them.
PassOrder(m, t) == SelectSeq(KeySeq, LAMBDA k : k \in DueKeys(m, t))

\* lines 94-104: tasks_mutex is locked, `now` is read once, and every due
\* entry in key order has its action invoked and is erased; while actions
\* run the thread is at line 102, holding tasks_mutex
bg_L95 ==
  /\ Lin /\ b_pc = "L95"
  /\ LET due == DueKeys(scheduled_tasks, now) IN
       /\ scheduled_tasks' = [k \in (DOMAIN scheduled_tasks) \ due |-> scheduled_tasks[k]]
       /\ runs' = [i \in Insts |->
                     IF i \in {scheduled_tasks[k].task : k \in due}
                       THEN runs[i] + 1 ELSE runs[i]]
       /\ lastDue' = IF due = {} THEN lastDue
                     ELSE scheduled_tasks[LastKey(due)].execute_time
       /\ b_pc' = IF due = {} THEN "L75" ELSE "L102"
       /\ b_left' = Cardinality(due)
  /\ UNCHANGED <<platform, failVars, sinkVars, callVars, now, fg_pc, winVars, background_running,
                 background_thread, background_interval_ms, b_wake, nextInst,
                 cancelled, pendingAtStop, reschedEarlier, liveWorkers,
                 liveScheds, event_sink, b_tested, b_passed>>

\* lines 94-103 when the action of the due entry k throws at line 102: the
\* due entries before k in key order have run and are erased, k's action has
\* been invoked, nothing in background_worker catches, and std::terminate
\* ends the process
bg_L102_throws ==
  /\ Lin /\ b_pc = "L95"
  /\ \E k \in DueKeys(scheduled_tasks, now) :
       LET before == {j \in DueKeys(scheduled_tasks, now) : Rank(j) < Rank(k)} IN
         /\ scheduled_tasks' = [j \in (DOMAIN scheduled_tasks) \ before |-> scheduled_tasks[j]]
         /\ runs' = [i \in Insts |->
                       IF i \in {scheduled_tasks[j].task : j \in before \cup {k}}
                         THEN runs[i] + 1 ELSE runs[i]]
         /\ lastDue' = scheduled_tasks[k].execute_time
  /\ b_pc' = "terminate"
  /\ fg_pc' = "terminate"
  /\ liveWorkers' = 0
  /\ UNCHANGED <<platform, linSinkVars, sinkVars, failVars, callVars, now, winVars, background_running,
                 background_thread, background_interval_ms, b_wake, nextInst,
                 cancelled, pendingAtStop, reschedEarlier, liveScheds>>

\* line 109: the actions have returned; the end of the block releases
\* tasks_mutex
bg_L109 ==
  /\ Lin /\ b_pc = "L102"
  /\ b_left = 0
  /\ b_pc' = "L75"
  /\ UNCHANGED <<platform, linSinkVars, failVars, sinkVars, callVars, now, fg_pc, winVars, background_running,
                 background_thread, background_interval_ms, scheduled_tasks,
                 b_wake, obsVars>>

\* lines 228-234: the action of a task calls send_event; line 758:
\* if (self->event_sink), with no sink the event is dropped
bg_ActionSend ==
  /\ Lin /\ b_pc = "L102"
  /\ b_left > 0
  /\ IF event_sink # 0
       THEN /\ b_pc' = "L102_L763"
            /\ b_tested' = event_sink
            /\ b_passed' = -1
            /\ UNCHANGED b_left
       ELSE /\ b_left' = b_left - 1
            /\ UNCHANGED <<b_pc, b_tested, b_passed>>
  /\ UNCHANGED <<platform, failVars, sinkVars, callVars, now, fg_pc, winVars, linVars_but_pc,
                 event_sink, obsVars>>

\* lines 741-746: self->event_sink = fl_event_channel_get_event_sink(channel),
\* no lock taken
event_listen_cb ==
  /\ Lin /\ fg_pc = "idle"
  /\ nextSink <= MaxSinks
  /\ event_sink' = nextSink
  /\ nextSink' = nextSink + 1
  /\ UNCHANGED <<platform, failVars, callVars, now, fg_pc, winVars, linVars, event_sink_,
                 deliver_to, received, sent, b_tested, b_passed, b_left, obsVars>>

\* lines 748-753: self->event_sink = nullptr, no lock taken
event_cancel_cb ==
  /\ Lin /\ fg_pc = "idle"
  /\ event_sink' = 0
  /\ UNCHANGED <<platform, failVars, sinkVars, callVars, now, fg_pc, winVars, linVars,
                 b_tested, b_passed, b_left, obsVars>>

LinNext(calls) ==
  \/ start_background_service
  \/ call_stop_background_service \/ stop_L188 \/ stop_L191
  \/ \E id \in Ids, d \in Delays :
       nextInst <= calls /\ schedule_background_task(id, d) /\ UNCHANGED callVars
  \/ \E id \in Ids : cancel_background_task(id) /\ UNCHANGED callVars
  \/ bg_L75 \/ bg_L78 \/ bg_Block \/ bg_SpuriousWake \/ bg_Woken \/ bg_Timeout
  \/ bg_L83 \/ bg_L95 \/ bg_ActionSend \/ bg_L109

(***************************************************************************)
(* Specifications.                                                         *)
(***************************************************************************)
Next == Tick \/ WinNext(MaxInst) \/ LinNext(MaxInst)

Spec == Init /\ [][Next]_vars

\* the same program with one more schedule call and with changes of the
\* tick interval
NextMore ==
  \/ Tick \/ WinNext(MaxInst + 1) \/ LinNext(MaxInst + 1)
  \/ \E n \in Intervals : SetInterval(n)
  \/ \E n \in Intervals : configure_background_service(n)

SpecMore == Init /\ [][NextMore]_vars

(***************************************************************************)
(* The running Windows service under fair scheduling: Start() is called    *)
(* and never Stop(); every thread that can take a step eventually takes    *)
(* it and the clock advances.  All due times and wait targets lie within   *)
(* the clock's range, so that every timed wait can end.                    *)
(* The worker thread, which shares nothing with the scheduler, is left     *)
(* at its start.                                                           *)
(***************************************************************************)
\* the Windows plugin after construction
InitWin == Init /\ platform = "windows"

Horizon == MaxTime * TickMs

InHorizon ==
  /\ s_target <= Horizon
  /\ \A k \in DOMAIN scheduled_tasks_ : scheduled_tasks_[k].execute_time <= Horizon

NextLive ==
  /\ \/ Tick
     \/ CallStart \/ Start_L17
     \/ \E id \in Ids, d \in Delays : nextInst <= MaxInst /\ ScheduleTask(id, d) /\ UNCHANGED callVars
     \/ \E id \in Ids : CancelTask(id) /\ UNCHANGED callVars
     \/ SchedLoop \/ SchedLock \/ SchedBlock \/ SchedSpuriousWake
     \/ SchedWaitWoken \/ SchedUntilWoken \/ SchedUntilTimeout
     \/ SchedActionReturn
  /\ InHorizon'

SpecLive ==
  /\ InitWin
  /\ [][NextLive]_vars
  /\ WF_vars(Tick)
  /\ WF_vars(SchedLoop)
  /\ WF_vars(SchedLock /\ InHorizon')
  /\ WF_vars(SchedBlock)
  /\ WF_vars(SchedWaitWoken)
  /\ WF_vars(SchedUntilWoken /\ InHorizon')
  /\ WF_vars(SchedUntilTimeout)
  /\ WF_vars(SchedActionReturn)

(***************************************************************************)
(* The Windows service with changes of the tick interval and no tasks:     *)
(* Start, Stop, SetInterval, the worker thread, and the scheduler thread   *)
(* on its empty registry.                                                  *)
(***************************************************************************)
NextTick ==
  \/ Tick
  \/ CallStart \/ Start_L17
  \/ CallStop \/ Stop_L31 \/ Stop_L37 \/ Stop_L40
  \/ \E n \in Intervals : SetInterval(n)
  \/ WorkerLoop \/ WorkerTick
  \/ SchedLoop \/ SchedLock \/ SchedBlock \/ SchedSpuriousWake
  \/ SchedWaitWoken

SpecTick == InitWin /\ [][NextTick]_vars

(***************************************************************************)
(* The method-channel handlers for scheduleBackgroundTask and              *)
(* cancelBackgroundTask, with the argument map they receive.  A handler    *)
(* runs on the foreground thread; its response stays in `reply` until the  *)
(* caller has taken it.                                                    *)
(***************************************************************************)
WithMap(method, hasTaskId, taskId, hasDelay, delayMillis) ==
  [method |-> method, hasMap |-> TRUE, hasTaskId |-> hasTaskId,
   taskId |-> taskId, hasDelay |-> hasDelay, delayMillis |-> delayMillis]

\* delayMillis values: the delays of the model and a negative one
DelayArgs == Delays \cup {0 - TickMs}

\* scheduleBackgroundTask: no map, a map without taskId, a map without
\* delayMillis, or both present
ScheduleArgs ==
  {[NoArgs EXCEPT !.method = "schedule"]}
  \cup {WithMap("schedule", FALSE, "none", TRUE, 0)}
  \cup {WithMap("schedule", TRUE, id, FALSE, 0) : id \in Ids}
  \cup {WithMap("schedule", TRUE, id, TRUE, d) : id \in Ids, d \in DelayArgs}

\* cancelBackgroundTask: no map, a map without taskId, or taskId present
CancelArgs ==
  {[NoArgs EXCEPT !.method = "cancel"]}
  \cup {WithMap("cancel", FALSE, "none", FALSE, 0)}
  \cup {WithMap("cancel", TRUE, id, FALSE, 0) : id \in Ids}

ScheduleArgsOk_Always(args) == TRUE

\* Windows lines 196-216: the three INVALID_ARGS returns of
\* ScheduleBackgroundTask
ScheduleArgsOk(args) == args.hasMap /\ args.hasTaskId /\ args.hasDelay

\* Windows lines 232-248: the INVALID_ARGS returns of CancelBackgroundTask
CancelArgsOk(args) == args.hasMap /\ args.hasTaskId

\* Linux lines 211-220
schedule_args_ok(args) == args.hasMap /\ args.hasTaskId /\ args.hasDelay

\* Linux lines 241-248
cancel_args_ok(args) == args.hasMap /\ args.hasTaskId

\* Windows lines 193-227
ScheduleBackgroundTask(args) ==
  /\ Win /\ fg_pc = "idle" /\ reply = "none"
  /\ fg_args' = args
  /\ IF ScheduleArgsOk(args)
       THEN /\ ScheduleTask(args.taskId, args.delayMillis)
            /\ reply' = "Success"
       ELSE /\ reply' = "INVALID_ARGS"
            /\ UNCHANGED <<platform, linSinkVars, failVars, sinkVars, now, fg_pc, winVars, linVars, obsVars>>

\* Windows lines 229-252
CancelBackgroundTask(args) ==
  /\ Win /\ fg_pc = "idle" /\ reply = "none"
  /\ fg_args' = args
  /\ IF CancelArgsOk(args)
       THEN /\ CancelTask(args.taskId)
            /\ reply' = "Success"
       ELSE /\ reply' = "INVALID_ARGS"
            /\ UNCHANGED <<platform, linSinkVars, failVars, sinkVars, now, fg_pc, winVars, linVars, obsVars>>

\* Linux lines 210-238
schedule_background_task_call(args) ==
  /\ Lin /\ fg_pc = "idle" /\ reply = "none"
  /\ fg_args' = args
  /\ IF schedule_args_ok(args)
       THEN /\ schedule_background_task(args.taskId, args.delayMillis)
            /\ reply' = "Success"
       ELSE /\ reply' = "INVALID_ARGS"
            /\ UNCHANGED <<platform, linSinkVars, failVars, sinkVars, now, fg_pc, winVars, linVars, obsVars>>

\* Linux lines 240-256
cancel_background_task_call(args) ==
  /\ Lin /\ fg_pc = "idle" /\ reply = "none"
  /\ fg_args' = args
  /\ IF cancel_args_ok(args)
       THEN /\ cancel_background_task(args.taskId)
            /\ reply' = "Success"
       ELSE /\ reply' = "INVALID_ARGS"
            /\ UNCHANGED <<platform, linSinkVars, failVars, sinkVars, now, fg_pc, winVars, linVars, obsVars>>

\* the caller takes the response (result->Success() / result->Error())
ReplyTaken ==
  /\ reply # "none"
  /\ reply' = "none"
  /\ fg_args' = NoArgs
  /\ UNCHANGED <<platform, linSinkVars, failVars, sinkVars, now, fg_pc, winVars, linVars, obsVars>>

(***************************************************************************)
(* The service, started and not stopped, driven through the handlers.      *)
(* The Windows worker thread, which shares nothing with the registry, is   *)
(* left at its start.                                                      *)
(***************************************************************************)
NextPlug ==
  \/ Tick
  \/ CallStart \/ Start_L17 \/ start_background_service
  \/ \E args \in ScheduleArgs : nextInst <= MaxInst /\ ScheduleBackgroundTask(args)
  \/ \E args \in CancelArgs : CancelBackgroundTask(args)
  \/ \E args \in ScheduleArgs :
       nextInst <= MaxInst /\ schedule_background_task_call(args)
  \/ \E args \in CancelArgs : cancel_background_task_call(args)
  \/ ReplyTaken
  \/ SchedLoop \/ SchedLock \/ SchedBlock \/ SchedSpuriousWake
  \/ SchedWaitWoken \/ SchedUntilWoken \/ SchedUntilTimeout
  \/ SchedActionReturn
  \/ bg_L75 \/ bg_L78 \/ bg_Block \/ bg_SpuriousWake \/ bg_Woken \/ bg_Timeout
  \/ bg_L83 \/ bg_L95 \/ bg_ActionSend \/ bg_L109

SpecPlug == Init /\ [][NextPlug]_vars

(***************************************************************************)
(* The started Windows service publishing to the event channel: ticks of   *)
(* the worker and task results of the scheduler, with OnListen and         *)
(* OnCancel arriving on the foreground thread.                             *)
(***************************************************************************)
NextSink ==
  \/ Tick
  \/ CallStart \/ Start_L17
  \/ OnListen \/ OnCancel
  \/ \E d \in Delays :
       nextInst <= MaxInst /\ ScheduleTask("a", d) /\ UNCHANGED callVars
  \/ WorkerLoop \/ WorkerTick \/ WorkerDelivered
  \/ SchedLoop \/ SchedLock \/ SchedBlock
  \/ SchedWaitWoken \/ SchedUntilWoken \/ SchedUntilTimeout
  \/ SchedActionReturn \/ SchedDelivered

SpecSink == InitWin /\ [][NextSink]_vars

(***************************************************************************)
(* The program with the two failures its code does not handle: a thread    *)
(* that cannot be created in Start, and a task action that throws.         *)
(***************************************************************************)
NextFail ==
  \/ Next
  \/ Start_ThreadThrows \/ start_thread_throws
  \/ SchedActionThrows \/ bg_L102_throws

SpecFail == Init /\ [][NextFail]_vars

(***************************************************************************)
(* The Linux service publishing to its event channel: the periodic event   *)
(* and the task results of background_worker, with event_listen_cb and     *)
(* event_cancel_cb arriving on the foreground thread.                      *)
(***************************************************************************)
InitLin == Init /\ platform = "linux"

NextLinSink ==
  \/ Tick
  \/ start_background_service
  \/ event_listen_cb \/ event_cancel_cb
  \/ \E id \in Ids, d \in Delays :
       nextInst <= MaxInst /\ schedule_background_task(id, d) /\ UNCHANGED callVars
  \/ bg_L75 \/ bg_L78 \/ bg_Block \/ bg_SpuriousWake \/ bg_Woken \/ bg_Timeout
  \/ bg_L83 \/ bg_L763 \/ bg_L95 \/ bg_ActionSend \/ bg_L109

SpecLinSink == InitLin /\ [][NextLinSink]_vars

(***************************************************************************)
(* The Windows service used while Stopped: tasks are stored and Stop() is  *)
(* called before Start(), and the started service is not stopped again.    *)
(* A call in progress and every thread that can take a step eventually     *)
(* take it, and the clock advances.                                        *)
(***************************************************************************)
NextStopped ==
  /\ \/ Tick
     \/ CallStart \/ Start_L17
     \/ (CallStop /\ ~is_running_) \/ Stop_L31
     \/ \E id \in Ids, d \in Delays : nextInst <= MaxInst /\ ScheduleTask(id, d) /\ UNCHANGED callVars
     \/ SchedLoop \/ SchedLock \/ SchedBlock \/ SchedSpuriousWake
     \/ SchedWaitWoken \/ SchedUntilWoken \/ SchedUntilTimeout
     \/ SchedActionReturn
  /\ InHorizon'

SpecStopped ==
  /\ InitWin
  /\ [][NextStopped]_vars
  /\ WF_vars(Tick)
  /\ WF_vars(Start_L17)
  /\ WF_vars(SchedLoop)
  /\ WF_vars(SchedLock /\ InHorizon')
  /\ WF_vars(SchedBlock)
  /\ WF_vars(SchedWaitWoken)
  /\ WF_vars(SchedUntilWoken /\ InHorizon')
  /\ WF_vars(SchedUntilTimeout)
  /\ WF_vars(SchedActionReturn)

(***************************************************************************)
(* Properties.                                                             *)
(***************************************************************************)
\* an action invocation happens in the step that raises runs[i]
Invoked(i) == runs'[i] > runs[i]

\* the service is Stopped and no Stop() call is in progress
Stopped == Win /\ ~is_running_ /\ fg_pc \notin {"Stop_L37", "Stop_L40"}

\* C1 (Windows): under every interleaving of ScheduleTask, CancelTask, Start,
\* Stop and the scheduler thread, the action of one task instance is invoked
\* at most once.
C1_AtMostOnce == Win => \A i \in Insts : runs[i] <= 1

\* an instance has been executed and taken out, and the scheduler has gone
\* round its loop again while another instance is pending
C1_Witness ==
  /\ Win /\ s_pc = "L95"
  /\ \E i \in Insts : runs[i] = 1 /\ i \notin TasksOf(scheduled_tasks_)
  /\ scheduled_tasks_ # EmptyMap

\* C2 (Windows and Linux): an instance that a cancel call removed from the
\* registry before the scheduler took it out never has its action invoked.
C2_CancelledNeverRuns == \A i \in cancelled : runs[i] = 0

\* a pending instance was cancelled, and the running service has since
\* reached the end of the clock's range
C2_Witness ==
  /\ cancelled # {}
  /\ now = MaxTime * TickMs
  /\ is_running_ \/ background_running
  /\ s_pc \in {"L99_blocked", "none"}
  /\ b_pc \in {"L78_blocked", "none"}

\* C3 (Windows): a pending task stored again with a shorter delay runs at the
\* time of the second request: the scheduler never sleeps in its timed wait
\* to a time later than the due time of such an entry.
C3_TimedToSecondSchedule ==
  (Win /\ s_pc = "L127_blocked") =>
    \A k \in DOMAIN scheduled_tasks_ :
      scheduled_tasks_[k].task \in reschedEarlier =>
        s_target <= scheduled_tasks_[k].execute_time

\* C4 (Windows): when Stop() has returned both threads have terminated, and
\* until the next Start() no task action is invoked and no periodic tick is
\* published.
C4_StoppedQuiet ==
  /\ [](Stopped => /\ w_pc = "none" /\ s_pc = "none"
                   /\ liveWorkers = 0 /\ liveScheds = 0)
  /\ [][Stopped => /\ runs' = runs
                   /\ ~(w_pc = "L79" /\ w_pc' # w_pc)]_vars

\* Stop() has returned after a task ran, and a task stored since is overdue
\* in the registry of the stopped service
C4_Witness ==
  /\ Stopped /\ fg_pc = "idle"
  /\ \E i \in Insts : runs[i] = 1
  /\ \E k \in DOMAIN scheduled_tasks_ : scheduled_tasks_[k].execute_time < now

\* C5 (Windows): the shutdown signal is never missed: once Stop() has issued
\* notify_all and waits in join, the scheduler is not blocked in the
\* untimed wait of line 99 (from which only a notification releases it).
C5_ShutdownSignalNotMissed ==
  ~(Win /\ fg_pc = "Stop_L40" /\ s_pc = "L99_blocked")

\* C6 (Windows and Linux): Start while Running is a no-op; at most one
\* tick-producing thread and at most one task-draining thread exist, and no
\* thread is created while the service is running.
C6_AtMostOneThread ==
  /\ [](liveWorkers <= 1 /\ liveScheds <= 1)
  /\ [][(fg_pc = "Start_L17" /\ is_running_ /\ fg_pc' # fg_pc) =>
          /\ fg_pc' = "idle"
          /\ UNCHANGED <<winVars, liveWorkers, liveScheds>>]_vars
  /\ [][(is_running_ \/ background_running) =>
          /\ liveWorkers' <= liveWorkers
          /\ liveScheds' <= liveScheds]_vars

\* Start() is called on a service that is Running with both threads alive
C6_Witness ==
  /\ Win /\ fg_pc = "Start_L17" /\ is_running_
  /\ liveWorkers = 1 /\ liveScheds = 1

\* C7 (Windows and Linux): Stop while Stopped is a no-op: the call returns
\* at its guard, and running flags, interval and registry are unchanged.
C7_StopNoop ==
  /\ [][(fg_pc = "Stop_L31" /\ ~is_running_ /\ fg_pc' # fg_pc) =>
          /\ fg_pc' = "idle"
          /\ UNCHANGED <<winVars, obsVars>>]_vars
  /\ [][(fg_pc = "stop_L188" /\ ~background_thread /\ fg_pc' # fg_pc) =>
          /\ fg_pc' = "idle"
          /\ UNCHANGED <<linVars, obsVars>>]_vars

\* Stop() is called on a Stopped service whose registry holds a task
C7_Witness ==
  \/ fg_pc = "Stop_L31" /\ ~is_running_ /\ scheduled_tasks_ # EmptyMap
  \/ fg_pc = "stop_L188" /\ ~background_thread /\ scheduled_tasks # EmptyMap

\* C8 (Windows): a task pending when Stop() is called on a Running service
\* is discarded: its action is never invoked.
C8_PendingAtStopDiscarded == Win => \A i \in pendingAtStop : runs[i] = 0

\* C9 (Windows): with non-negative delays the scheduler invokes actions in
\* non-decreasing due-time order, and never a task while another pending
\* task is due earlier.
C9_DueOrder ==
  [][Win =>
       \A k \in DOMAIN scheduled_tasks_ :
         Invoked(scheduled_tasks_[k].task) =>
           /\ scheduled_tasks_[k].execute_time >= lastDue
           /\ \A j \in DOMAIN scheduled_tasks_ :
                scheduled_tasks_[k].execute_time <= scheduled_tasks_[j].execute_time]_vars

\* a task runs while a task stored before it, with a later due time, waits
C9_Witness ==
  /\ Win /\ s_pc = "L123"
  /\ \E k \in DOMAIN scheduled_tasks_ :
       /\ scheduled_tasks_[k].execute_time > s_task.execute_time
       /\ scheduled_tasks_[k].task < s_task.task

\* C10 (Windows and Linux): no action is invoked before its due time: at the
\* invocation the clock is at or past the entry's execute_time.
C10_NotBeforeDue ==
  [][/\ \A k \in DOMAIN scheduled_tasks_ :
          Invoked(scheduled_tasks_[k].task) =>
            scheduled_tasks_[k].execute_time <= now
     /\ \A k \in DOMAIN scheduled_tasks :
          Invoked(scheduled_tasks[k].task) =>
            scheduled_tasks[k].execute_time <= now]_vars

\* a thread has examined a pending task that is not yet due and waits
\* instead of invoking it
C10_Witness ==
  /\ \A i \in Insts : runs[i] = 0
  /\ \/ /\ s_pc = "L127_blocked" /\ s_target > now
        /\ \E k \in DOMAIN scheduled_tasks_ : scheduled_tasks_[k].execute_time > now
     \/ /\ b_pc = "L75" /\ now > 0
        /\ \E k \in DOMAIN scheduled_tasks : scheduled_tasks[k].execute_time > now

\* C11 (Windows): in a service that is Running and never stopped, under fair
\* scheduling and an advancing clock, every pending task instance eventually
\* has its action invoked, unless it is cancelled or replaced first.
C11_EventuallyExecuted ==
  \A i \in Insts :
    (is_running_ /\ i \in TasksOf(scheduled_tasks_))
      ~> (runs[i] = 1 \/ i \notin TasksOf(scheduled_tasks_))

\* the scheduler, blocked on the empty registry, has been woken and finds a
\* task stored
C11_Witness ==
  /\ Win /\ is_running_ /\ s_pc = "L99_woken"
  /\ scheduled_tasks_ # EmptyMap
  /\ \A i \in Insts : runs[i] = 0

\* C12 (Windows): every sleep of the worker that starts after SetInterval(n)
\* lasts n milliseconds: a sleep is as long as interval_ms_ is when it
\* starts, the worker goes on to its next tick only when that sleep has
\* ended, and a change of the interval leaves the sleep in progress alone.
C12_SleepUsesInterval ==
  /\ [][(w_pc \in {"L79", "L608"} /\ w_pc' = "L77") =>
          w_wake' = now + interval_ms_]_vars
  /\ [][(w_pc = "L77" /\ w_pc' # "L77") => now >= w_wake]_vars
  /\ [][interval_ms_' # interval_ms_ =>
          /\ interval_ms_' \in Intervals
          /\ UNCHANGED <<w_pc, w_wake>>]_vars

\* the worker sleeps for an interval longer than the default, set by
\* SetInterval before the sleep began
C12_Witness ==
  /\ Win /\ is_running_ /\ w_pc = "L77"
  /\ interval_ms_ > DefaultInterval
  /\ w_wake = now + interval_ms_
  /\ now > 0

\* a handler responds in this step
Responds == reply = "none" /\ reply' # "none"

\* the arguments miss the map, the taskId or, for schedule, the delayMillis
MissingArgs(args) ==
  \/ ~args.hasMap
  \/ ~args.hasTaskId
  \/ args.method = "schedule" /\ ~args.hasDelay

\* C13 (Windows and Linux): cancelling an id that is not in the registry
\* succeeds and leaves the registry, the running state, the interval and
\* the threads unchanged.
C13_CancelUnknownNoop ==
  [][(/\ Responds
      /\ fg_args'.method = "cancel" /\ ~MissingArgs(fg_args')
      /\ fg_args'.taskId \notin DOMAIN scheduled_tasks_
      /\ fg_args'.taskId \notin DOMAIN scheduled_tasks)
     => /\ reply' = "Success"
        /\ UNCHANGED <<winVars, linVars, obsVars>>]_vars

\* a cancel for an id that is not stored has succeeded while another task
\* is pending and one has been executed
C13_Witness ==
  /\ reply = "Success" /\ fg_args.method = "cancel"
  /\ cancelled = {}
  /\ fg_args.taskId \notin DOMAIN scheduled_tasks_ \cup DOMAIN scheduled_tasks
  /\ scheduled_tasks_ # EmptyMap \/ scheduled_tasks # EmptyMap
  /\ \E i \in Insts : runs[i] = 1

\* C17 (Windows and Linux): a scheduleBackgroundTask request with a
\* negative delay is answered with an error.
C17_NegativeDelayRejected ==
  (/\ reply # "none"
   /\ fg_args.method = "schedule" /\ ~MissingArgs(fg_args)
   /\ fg_args.delayMillis < 0)
  => reply = "INVALID_ARGS"

\* C18 (Windows and Linux): a schedule or cancel request with missing
\* arguments returns INVALID_ARGS and leaves the registry unchanged.
C18_MissingArgsRejected ==
  [][(Responds /\ MissingArgs(fg_args'))
     => /\ reply' = "INVALID_ARGS"
        /\ UNCHANGED <<scheduled_tasks_, scheduled_tasks, nextInst>>]_vars

\* a request without its arguments was answered INVALID_ARGS while a task
\* is pending
C18_Witness ==
  /\ reply = "INVALID_ARGS" /\ MissingArgs(fg_args)
  /\ fg_args.method \in {"schedule", "cancel"}
  /\ scheduled_tasks_ # EmptyMap \/ scheduled_tasks # EmptyMap

\* a background thread enters SendEvent in this step
Publishes ==
  \/ w_pc = "L79" /\ w_pc' # w_pc
  \/ s_pc = "L123" /\ s_pc' # s_pc

\* the events on their way to sink k: published, Success() not yet returned
InFlight(k) == IF deliver_to = k THEN 1 ELSE 0

\* C14 (Windows plugin): every published event is delivered exactly once to
\* the sink attached at the moment of the publish and to no other sink; with
\* no sink attached it is dropped, never delivered to a later sink; and a
\* sink that OnListen has replaced receives nothing any more.
C14_DeliveredToAttachedSink ==
  /\ [](\A k \in Sinks : received[k] + InFlight(k) = sent[k])
  /\ [][\A k \in Sinks :
          received'[k] # received[k] =>
            /\ received'[k] = received[k] + 1
            /\ k = event_sink_ /\ k = event_sink_']_vars
  /\ [][(Publishes /\ event_sink_ = 0) =>
          /\ received' = received /\ deliver_to' = 0
          /\ w_pc' # "L608" /\ s_pc' # "L123_L608"]_vars
  /\ [][(Publishes /\ event_sink_ # 0) => deliver_to' = event_sink_]_vars

\* the first sink got an event, OnListen replaced it, the second sink got
\* an event, and an event published with no sink attached was dropped
C14_Witness ==
  /\ Win /\ received[1] = 1 /\ received[2] = 1
  /\ event_sink_ = 0 /\ deliver_to = 0
  /\ \E i \in Insts : runs[i] = 1 /\ s_pc = "L94"
  /\ w_pc = "L77" /\ w_wake = now + interval_ms_ /\ now > 0

\* C15 (Windows plugin): publishing from a background thread is safe against
\* attach and detach: while a delivery is in progress event_sink_ is neither
\* replaced nor cleared, and the sink whose Success() executes is the
\* attached one, never a cleared one.
C15_SinkStableDuringDelivery ==
  /\ [](SinkMutexHolder # "free" => (event_sink_ # 0 /\ deliver_to = event_sink_))
  /\ [][SinkMutexHolder # "free" => event_sink_' = event_sink_]_vars
  /\ [](~(w_pc = "L608" /\ s_pc = "L123_L608"))

\* the scheduler is inside Success() of the second sink while the worker is
\* about to publish its tick and the foreground is idle, free to call
\* OnListen or OnCancel
C15_Witness ==
  /\ Win /\ s_pc = "L123_L608" /\ w_pc = "L79" /\ fg_pc = "idle"
  /\ event_sink_ = 2 /\ deliver_to = 2

\* C16 (Windows and Linux): a task action that throws does not end the loop
\* of the thread that runs the tasks: that thread is never terminated by an
\* action's exception, so later ticks and tasks still happen.
C16_ThrowKeepsLoop == s_pc # "terminate" /\ b_pc # "terminate"

\* C19 (Windows): whenever no Start() or Stop() call is in progress, threads
\* exist exactly when the service is Running: Running means one live worker
\* and one live scheduler, Stopped means no live thread.
C19_ThreadsIffRunning ==
  (Win /\ fg_pc = "idle") =>
    IF is_running_
      THEN /\ liveWorkers = 1 /\ liveScheds = 1
           /\ w_pc \notin {"none", "done"} /\ s_pc \notin {"none", "done"}
      ELSE /\ liveWorkers = 0 /\ liveScheds = 0
           /\ w_pc = "none" /\ s_pc = "none"

\* C20 (Windows and Linux): when a thread cannot be created inside Start, the
\* failure is reported and the service is left Stopped: not running, no
\* thread alive.
C20_FailedStartLeavesStopped ==
  (start_error = "system_error" /\ fg_pc = "idle") =>
    /\ ~is_running_ /\ ~scheduler_running_ /\ ~background_running
    /\ liveWorkers = 0 /\ liveScheds = 0

\* the scheduler thread is executing a task action: the action has been
\* called at line 123 and has not returned (its event may be in delivery)
InAction == s_pc \in {"L123", "L123_L608"}

\* C21 (Windows): the scheduler thread never invokes a task action while it
\* holds tasks_mutex_ and never holds it while the action's event is being
\* published: the step that starts an action leaves the mutex free, it stays
\* free until the action has returned, and the foreground can store and
\* erase entries meanwhile.
C21_NoActionUnderTasksMutex ==
  /\ [](InAction => TasksMutexFree)
  /\ [][(~InAction /\ InAction') => (TasksMutexFree /\ TasksMutexFree')]_vars
  /\ [](deliver_to # 0 /\ s_pc = "L123_L608" => TasksMutexHolder # "sched")

\* while the event of a task's action is being delivered, the foreground has
\* stored a new entry under the same id
C21_Witness ==
  /\ Win /\ s_pc = "L123_L608" /\ deliver_to # 0
  /\ s_task.id \in DOMAIN scheduled_tasks_

\* C22 (Windows): when a task is stored whose due time is earlier than the
\* one the scheduler is waiting for, the scheduler re-evaluates its wait:
\* it is never blocked in the timed wait for an entry's due time, still in
\* the future, while another entry of the registry is already due.
C22_WaitReevaluated ==
  ~(/\ Win /\ scheduler_running_ /\ s_pc = "L127_blocked"
    /\ s_ref \in DOMAIN scheduled_tasks_
    /\ s_target = scheduled_tasks_[s_ref].execute_time
    /\ s_target > now
    /\ \E k \in DOMAIN scheduled_tasks_ : scheduled_tasks_[k].execute_time <= now)

\* C23 (Windows): once Stop() has set the shutdown flags the scheduler thread
\* begins no new task action: while scheduler_running_ is false no step
\* invokes an action.
C23_NoActionAfterFlags ==
  [][(Win /\ ~scheduler_running_) => \A i \in Insts : ~Invoked(i)]_vars

\* a well-formed call of the given method for the id of the task whose
\* action is in progress is answered in this step
AnswersForRunning(method) ==
  /\ Win /\ InAction /\ Responds
  /\ fg_args'.method = method /\ ~MissingArgs(fg_args')
  /\ fg_args'.taskId = s_task.id

PublishesTick == Win /\ w_pc = "L79" /\ w_pc' # w_pc

\* C25 (Windows): no periodic tick is published before one full interval has
\* passed after Start(): every interval is at least TickMs long and no
\* Start() is earlier than time 0, so no tick is published before the clock
\* reads TickMs.
C25_NoTickBeforeInterval == [][PublishesTick => now >= TickMs]_vars

\* C26 (Windows): a shutdown request wakes the periodic-tick thread early:
\* once Stop() has set the flags, issued its notification and waits in
\* join, the worker is not left asleep for the rest of its interval.
C26_StopWakesWorker ==
  ~(Win /\ fg_pc = "Stop_L40" /\ ~is_running_ /\ w_pc = "L77" /\ now < w_wake)

\* C27 (Windows): task actions run one at a time, over any sequence of Start,
\* Stop, ScheduleTask and CancelTask: never more than one scheduler thread
\* is alive, an action is in progress only in that one thread, a thread is
\* created only when none is left from an earlier run, and no action begins
\* while another is in progress.
C27_ActionsSequential ==
  /\ [](Win => liveScheds <= 1)
  /\ []((Win /\ InAction) => liveScheds = 1)
  /\ [][(Win /\ liveScheds' > liveScheds) =>
          (liveScheds = 0 /\ s_pc = "none")]_vars
  /\ [][(Win /\ \E i \in Insts : Invoked(i)) =>
          (~InAction /\ Cardinality({i \in Insts : Invoked(i)}) = 1)]_vars

\* after a Stop() during which a task ran, and a later Start(), the new
\* scheduler thread is executing the action of another task
C27_Witness ==
  /\ Win /\ InAction /\ is_running_ /\ fg_pc = "idle"
  /\ pendingAtStop # {} /\ s_task.task \notin pendingAtStop
  /\ \A i \in pendingAtStop : runs[i] = 1

\* background_worker makes its pass over the registry in this step
Pass == Lin /\ b_pc = "L95" /\ b_pc' # b_pc

\* C28 (Linux): when several tasks are due in the same pass of
\* background_worker, their actions are invoked in non-decreasing order of
\* due time, whatever their identifiers.
C28_PassInDueOrder ==
  [][Pass =>
       LET o == PassOrder(scheduled_tasks, now) IN
         \A i, j \in 1..Len(o) :
           i < j => scheduled_tasks[o[i]].execute_time <=
                    scheduled_tasks[o[j]].execute_time]_vars

\* C29 (Linux): background_worker never invokes a task action while it holds
\* tasks_mutex, so that no schedule or cancel call waits for an action to
\* return.
C29_NoActionUnderTasksMutexLinux == (Lin /\ b_pc = "L102") => tasks_mutex_free

\* C30 (Linux): the tasks pending when stopBackgroundService is called are
\* discarded: none of them is ever executed, and once that stop has returned
\* none of them is in the registry.
C30_PendingAtStopDiscardedLinux ==
  Lin => \A i \in pendingAtStop :
           /\ runs[i] = 0
           /\ fg_pc # "stop_L191" => i \notin TasksOf(scheduled_tasks)

\* C31 (Linux): storing a task while Running makes the worker re-evaluate its
\* wait, so that a task due before the end of the interval wait runs at its
\* due time: the worker is never blocked in its interval wait, the deadline
\* still ahead, while an entry of the registry is already due.
C31_WorkerWaitReevaluated ==
  ~(/\ Lin /\ background_running /\ b_pc = "L78_blocked"
    /\ now < b_wake
    /\ \E k \in DOMAIN scheduled_tasks : scheduled_tasks[k].execute_time <= now)

\* C32 (Linux): send_event on the background thread is safe against
\* event_listen_cb and event_cancel_cb on the foreground thread: the sink it
\* gives to fl_event_sink_add is the sink its test found, never a cleared
\* (null) one.
C32_SendEventSinkStable ==
  (Lin /\ b_passed # -1) => (b_passed # 0 /\ b_passed = b_tested)

\* C33 (Linux): once a shutdown has been requested, background_worker exits
\* without executing any further task: while background_running is false no
\* step invokes a task action.
C33_NoTaskAfterShutdown ==
  [][(Lin /\ ~background_running) => \A i \in Insts : ~Invoked(i)]_vars

\* C34 (Windows): whenever the scheduler, woken in its timed wait, reads the
\* wait target again through its reference to the earliest entry, that
\* entry is still in the registry: no CancelTask during the wait has
\* removed it.
C34_WaitRefValid ==
  (Win /\ s_pc = "L127_woken") => s_ref \in DOMAIN scheduled_tasks_

\* C35 (Windows): ScheduleTask on a Stopped service stores the entry and
\* changes nothing else; no action is invoked while the service is Stopped;
\* a Stop() called while Stopped leaves the registry as it is; and a task
\* pending when Start() is called on the Stopped service is eventually
\* executed (or replaced by a later ScheduleTask of its id), not before its
\* due time.
C35_ScheduledWhileStopped ==
  /\ [][(Win /\ ~is_running_ /\ fg_pc = "idle" /\ nextInst' > nextInst) =>
          /\ \E k \in DOMAIN scheduled_tasks_' :
               /\ scheduled_tasks_'[k].task = nextInst
               /\ scheduled_tasks_'[k].execute_time >= now
               /\ \A j \in (DOMAIN scheduled_tasks_) \ {k} :
                    /\ j \in DOMAIN scheduled_tasks_'
                    /\ scheduled_tasks_'[j] = scheduled_tasks_[j]
          /\ UNCHANGED <<is_running_, scheduler_running_, interval_ms_, w_pc, s_pc,
                         runs, liveWorkers, liveScheds>>]_vars
  /\ [][(Win /\ ~is_running_) => runs' = runs]_vars
  /\ [][(Win /\ fg_pc = "Stop_L31" /\ ~is_running_ /\ fg_pc' # fg_pc) =>
          /\ scheduled_tasks_' = scheduled_tasks_
          /\ fg_pc' = "idle"]_vars
  /\ [][Win => \A k \in DOMAIN scheduled_tasks_ :
                 Invoked(scheduled_tasks_[k].task) =>
                   (is_running_ /\ scheduled_tasks_[k].execute_time <= now)]_vars
  /\ \A i \in Insts :
       (Win /\ fg_pc = "Start_L17" /\ ~is_running_ /\ i \in TasksOf(scheduled_tasks_))
         ~> (runs[i] = 1 \/ i \notin TasksOf(scheduled_tasks_))

\* a task stored while Stopped, kept through a Stop() called while Stopped,
\* has been executed by the scheduler of the Start() that followed
C35_Witness ==
  /\ Win /\ is_running_ /\ s_pc = "L123"
  /\ s_task.task = 1 /\ runs[1] = 1
  /\ liveScheds = 1 /\ nextInst = 2
  /\ s_task.execute_time < now

\* the registry `after` differs from `before` at most in the entry of id
OnlyEntryChanged(before, after, id) ==
  \A k \in Ids \ {id} :
    /\ k \in DOMAIN after <=> k \in DOMAIN before
    /\ k \in DOMAIN before => after[k] = before[k]

\* C36 (both platforms): a schedule call for id (the step that stores a new
\* instance under id) and a cancel call for id (the step that removes the
\* pending instance of id) leave the due time and action of every other id,
\* the service state and the interval unchanged.
C36_OnlyOwnEntryChanged ==
  [][\A id \in Ids :
       (\/ /\ nextInst' # nextInst
           /\ \/ id \in DOMAIN scheduled_tasks_' /\ scheduled_tasks_'[id].task = nextInst
              \/ id \in DOMAIN scheduled_tasks' /\ scheduled_tasks'[id].task = nextInst
        \/ /\ cancelled' # cancelled
           /\ \/ id \in DOMAIN scheduled_tasks_ /\ scheduled_tasks_[id].task \in cancelled'
              \/ id \in DOMAIN scheduled_tasks /\ scheduled_tasks[id].task \in cancelled')
       => /\ OnlyEntryChanged(scheduled_tasks_, scheduled_tasks_', id)
          /\ OnlyEntryChanged(scheduled_tasks, scheduled_tasks', id)
          /\ UNCHANGED <<is_running_, scheduler_running_, interval_ms_,
                         background_running, background_interval_ms>>]_vars

\* instance 2 was scheduled under one id while instance 1 was pending under
\* the other, and has been cancelled; instance 1 is still pending
C36_Witness ==
  /\ 2 \in cancelled /\ nextInst = 3
  /\ \/ \E k \in DOMAIN scheduled_tasks_ : scheduled_tasks_[k].task = 1
     \/ \E k \in DOMAIN scheduled_tasks : scheduled_tasks[k].task = 1

\* C37 (Windows): no thread holds tasks_mutex_ and event_sink_mutex_ at the
\* same time.  The scheduler thread never holds both; the worker thread,
\* the only other holder of event_sink_mutex_ between steps, never holds
\* tasks_mutex_; and no single step (a foreground call included) writes
\* both the registry, guarded by tasks_mutex_, and the sink or its
\* deliveries, guarded by event_sink_mutex_.
C37_NoThreadHoldsBothMutexes ==
  /\ [](Win => \A t \in {"sched", "worker"} :
                 ~(TasksMutexHolder = t /\ SinkMutexHolder = t))
  /\ [](Win /\ SinkMutexHolder = "sched" => s_pc \notin SchedLockedAt)
  /\ [][Win => ~(/\ scheduled_tasks_' # scheduled_tasks_
                 /\ <<event_sink_, deliver_to, received>>' #
                      <<event_sink_, deliver_to, received>>)]_vars

\* the two mutexes are held at the same moment by different threads: the
\* scheduler is about to block in its timed wait under tasks_mutex_ while
\* the worker delivers a tick under event_sink_mutex_
C37_Witness ==
  /\ Win /\ TasksMutexHolder = "sched" /\ s_pc = "L127_block"
  /\ SinkMutexHolder = "worker" /\ deliver_to # 0

====
